---- MODULE Spec2Model ----
(***************************************************************************)
(* Model of parsl.dataflow.futures.AppFuture: a future that forwards to a  *)
(* parent (executor) future, with the commit() path guard and the          *)
(* _parent_update_event used by result() to wait for a retry.              *)
(*                                                                         *)
(* One AppFuture is modelled together with the executor futures that may   *)
(* be handed to it, the threads that call result() on it, the thread that  *)
(* calls the status accessors, and the engine that binds parents and       *)
(* completes executor futures.                                             *)
(***************************************************************************)
EXTENDS Integers, FiniteSets, Sequences, TLC

\* ------------------------------------------------------------------ bounds
NumDelegates == 2      \* executor futures D1..Dn the engine may offer
NumCallers == 2        \* threads that call result()
MaxRetries == 1        \* retries_left of an executor future is 0..MaxRetries
NumFns == 1            \* user callbacks given to add_done_callback

None == 0                \* Python's None, where a future is expected
Delegates == 1..NumDelegates
Callers == 1..NumCallers
Fns == 1..NumFns

\* ------------------------------------------------ values, errors, outcomes
\* Values are opaque; each source of a value has its own, so that a returned
\* value tells where it came from: Val(None) is the value given to the
\* handle's own set_result, Val(d) the value executor future d returns.
Val(src) == ToString(src)
Errs == {"E"}                             \* the error of a failed task

\* An outcome of a future: a returned value or a raised exception.  wrapped
\* says that the object is a RemoteException wrapping the error v.
NoOutcome == [kind |-> "none", wrapped |-> FALSE, v |-> "-"]
Ok(v) == [kind |-> "val", wrapped |-> FALSE, v |-> v]
OkWrapped(e) == [kind |-> "val", wrapped |-> TRUE, v |-> e]
Err(e) == [kind |-> "exc", wrapped |-> FALSE, v |-> e]
ErrWrapped(e) == [kind |-> "exc", wrapped |-> TRUE, v |-> e]
\* The outcomes source src (None or an executor future) can produce.
OutcomesOf(src) == {Ok(Val(src))} \cup {OkWrapped(e) : e \in Errs}
                   \cup {Err(e) : e \in Errs} \cup {ErrWrapped(e) : e \in Errs}

\* Exceptions that are not task outcomes.
NameError == Err("NameError")            \* raise ValueException(...): the name is undefined
TimeoutError == Err("TimeoutError")
CancelledError == Err("CancelledError")

\* What a finished result() call gave its caller.
NoRet == [kind |-> "none", wrapped |-> FALSE, v |-> "-"]
Return(v) == [kind |-> "return", wrapped |-> FALSE, v |-> v]
Raise(e) == [kind |-> "raise", wrapped |-> e.wrapped, v |-> e.v]

\* Future states of concurrent.futures used by the module.
PENDING == "PENDING"
RUNNING == "RUNNING"
CANCELLED == "CANCELLED"
FINISHED == "FINISHED"

VARIABLES
    parent,                 \* self.parent: None or an executor future
    prev_parent,            \* self.prev_parent
    _parent_update_event,   \* threading.Event: TRUE when set
    _commit,                \* self._commit: 0, 1 (direct) or 2 (parent)
    commitFailure,          \* a COMMIT FAILURE line has been logged
    own,                    \* outcome held by super() (NoOutcome while pending)
    dstate,                 \* state of each executor future
    dout,                   \* outcome of each executor future
    retries_left,           \* retries_left attribute of each executor future
    dcallbacks,             \* done-callbacks attached to each executor future
    fnFired,                \* how often each user callback has been invoked
    fnOn,                   \* what add_done_callback(fn) did: not called, raised, or put fn on a future
    pc,                     \* position of each result() caller
    tmo,                    \* the caller passed a timeout
    exc,                    \* exception caught by the caller's except clause
    ret,                    \* what the caller's result() call gave
    via,                    \* self.parent as the caller read it at line 149
    obs                     \* the last call on the handle other than result(), and how it ended

vars == <<parent, prev_parent, _parent_update_event, _commit, commitFailure, own,
          dstate, dout, retries_left, dcallbacks, fnFired, fnOn, pc, tmo, exc, ret, via, obs>>

handleVars == <<parent, prev_parent, _parent_update_event, _commit, commitFailure, own>>
delegVars == <<dstate, dout, retries_left, dcallbacks, fnFired, fnOn>>
callerVars == <<pc, tmo, exc, ret, via>>

\* Callbacks attached to an executor future: the handle's parent_callback, or
\* a user function registered through add_done_callback.
ParentCb == [kind |-> "parent_callback", fn |-> 0]
FnCb(f) == [kind |-> "fn", fn |-> f]

\* The last call on the handle other than result(): the future it was given,
\* what the handle was like when it was called (handleStatus), and what it
\* returned ("raised" when it raised, "ok" for None).
NoObs == [op |-> "none", arg |-> None, pre |-> "-", ret |-> "-"]
Obs(op, arg, pre, r) == [op |-> op, arg |-> arg, pre |-> pre, ret |-> r]

\* add_done_callback(fn) has not been called, raised, or put fn on future d.
FnUnused == [st |-> "unused", d |-> None]
FnRaised == [st |-> "raised", d |-> None]
FnOn(d) == [st |-> "on", d |-> d]

\* ----------------------------------------------------------------- commit
\* Variant: commit(n) overwrites the path already committed to.
commit_overwrite(c, n) == n

\* commit(n): value of _commit after the call.
commit(c, n) == IF c = 0 THEN n ELSE c

\* commit(n) logs COMMIT FAILURE when already committed to the other path.
commitFails(c, n) == c # 0 /\ c # n

\* super().done()
superDone == own.kind # "none"

\* done() of an executor future
delegateDone(d) == dstate[d] \in {CANCELLED, FINISHED}

\* Executor future d gave no plain value: result() on it raises, or returns a
\* RemoteException.
delegateFailed(d) == delegateDone(d) /\ ~(dstate[d] = FINISHED /\ dout[d].kind = "val" /\ ~dout[d].wrapped)

\* The handle as a call finds it: without a parent (super() pending or set
\* directly), or with a parent that is not finished, has failed with retries
\* left, or is finished for good.
handleStatus ==
    IF parent = None THEN (IF superDone THEN "direct" ELSE "unbound")
    ELSE IF ~delegateDone(parent) THEN "live"
    ELSE IF delegateFailed(parent) /\ retries_left[parent] > 0 THEN "retry"
    ELSE "final"

Unbound == {"unbound", "direct"}

\* ------------------------------------------------------------------- Init
Init ==
    /\ parent \in {None, 1}
    /\ prev_parent = None
    /\ _parent_update_event = FALSE
    /\ _commit = 0
    /\ commitFailure = FALSE
    /\ own = NoOutcome
    /\ dstate = [d \in Delegates |-> PENDING]
    /\ dout = [d \in Delegates |-> NoOutcome]
    /\ retries_left \in [Delegates -> 0..MaxRetries]
    /\ dcallbacks = [d \in Delegates |-> {}]
    /\ fnFired = [f \in Fns |-> 0]
    /\ fnOn = [f \in Fns |-> FnUnused]
    /\ pc = [c \in Callers |-> "idle"]
    /\ tmo = [c \in Callers |-> FALSE]
    /\ exc = [c \in Callers |-> NoOutcome]
    /\ ret = [c \in Callers |-> NoRet]
    /\ via = [c \in Callers |-> None]
    /\ obs = NoObs

\* ------------------------------------------------------- parent_callback
\* parent_callback(executor_fu) runs commit(2) and then raises unless
\* executor_fu is self.parent and self.parent is None; only past both checks
\* does it copy the outcome of executor_fu into super().
parent_callback_raises(d, par) == d # par \/ par # None

\* The outcome parent_callback copies: the result, or the exception that
\* executor_fu.result() raises (CancelledError for a cancelled future).
mirrored(d, st, o) == IF st = CANCELLED THEN CancelledError ELSE o

\* super() after parent_callback(d), d having state st and outcome o.
parent_callback_own(d, par, st, o, cur) ==
    IF parent_callback_raises(d, par) THEN cur
    ELSE IF st \in {CANCELLED, FINISHED} /\ cur.kind = "none" THEN mirrored(d, st, o)
    ELSE cur

\* Variant: the user callbacks of every executor future are called, not only
\* those attached to d.
InvokeCallbacks_all(d, st, o) ==
    LET hasPcb == ParentCb \in dcallbacks[d]
    IN  /\ _commit' = IF hasPcb THEN commit(_commit, 2) ELSE _commit
        /\ commitFailure' = (commitFailure \/ (hasPcb /\ commitFails(_commit, 2)))
        /\ own' = IF hasPcb THEN parent_callback_own(d, parent, st, o, own) ELSE own
        /\ fnFired' = [f \in Fns |-> IF \E x \in Delegates : FnCb(f) \in dcallbacks[x]
                                      THEN fnFired[f] + 1 ELSE fnFired[f]]

\* _invoke_callbacks of executor future d: every attached callback is called,
\* exceptions raised by a callback are logged and dropped.
InvokeCallbacks(d, st, o) ==
    LET hasPcb == ParentCb \in dcallbacks[d]
    IN  /\ _commit' = IF hasPcb THEN commit(_commit, 2) ELSE _commit
        /\ commitFailure' = (commitFailure \/ (hasPcb /\ commitFails(_commit, 2)))
        /\ own' = IF hasPcb THEN parent_callback_own(d, parent, st, o, own) ELSE own
        /\ fnFired' = [f \in Fns |-> IF FnCb(f) \in dcallbacks[d]
                                      THEN fnFired[f] + 1 ELSE fnFired[f]]

\* --------------------------------------------------- the executor futures
\* set_running_or_notify_cancel(): the executor starts the attempt.
DelegateRun(d) ==
    /\ dstate[d] = PENDING
    /\ dstate' = [dstate EXCEPT ![d] = RUNNING]
    /\ UNCHANGED <<handleVars, dout, retries_left, dcallbacks, fnFired, fnOn, callerVars, obs>>

\* set_result()/set_exception() of the executor future, then its callbacks.
DelegateFinish(d, o) ==
    /\ dstate[d] \in {PENDING, RUNNING}
    /\ dstate' = [dstate EXCEPT ![d] = FINISHED]
    /\ dout' = [dout EXCEPT ![d] = o]
    /\ InvokeCallbacks(d, FINISHED, o)
    /\ UNCHANGED <<parent, prev_parent, _parent_update_event, retries_left, dcallbacks,
                   fnOn, callerVars, obs>>

\* cancel() called on the executor future itself by its owner.
DelegateCancel(d) ==
    /\ dstate[d] = PENDING
    /\ dstate' = [dstate EXCEPT ![d] = CANCELLED]
    /\ InvokeCallbacks(d, CANCELLED, NoOutcome)
    /\ UNCHANGED <<parent, prev_parent, _parent_update_event, dout, retries_left,
                   dcallbacks, fnOn, callerVars, obs>>

\* ----------------------------------------------------------- update_parent
\* Variant: a handle that has a parent takes the new one, keeping the old one
\* in prev_parent.
update_parent_rebind(fut) ==
    /\ _commit' = commit(_commit, 2)
    /\ commitFailure' = (commitFailure \/ commitFails(_commit, 2))
    /\ prev_parent' = parent
    /\ parent' = fut
    /\ dcallbacks' = [dcallbacks EXCEPT ![fut] = @ \cup {ParentCb}]
    /\ _parent_update_event' = TRUE
    /\ obs' = Obs("update_parent", fut, handleStatus, "ok")
    /\ UNCHANGED <<own, dstate, dout, retries_left, fnFired, fnOn, callerVars>>

update_parent(fut) ==
    \/ /\ parent # None                       \* "Can't set parent multiple times"
        /\ obs' = Obs("update_parent", fut, handleStatus, "raised")
        /\ UNCHANGED <<handleVars, delegVars, callerVars>>
    \/ /\ parent = None
        /\ ~delegateDone(fut)                  \* the callback is stored on fut
        /\ _commit' = commit(_commit, 2)
        /\ commitFailure' = (commitFailure \/ commitFails(_commit, 2))
        /\ parent' = fut
        /\ dcallbacks' = [dcallbacks EXCEPT ![fut] = @ \cup {ParentCb}]
        /\ _parent_update_event' = TRUE
        /\ obs' = Obs("update_parent", fut, handleStatus, "ok")
        /\ UNCHANGED <<prev_parent, own, dstate, dout, retries_left, fnFired, fnOn, callerVars>>
    \/ /\ parent = None
        /\ delegateDone(fut)                   \* fut is done: parent_callback runs at once and raises
        /\ _commit' = commit(_commit, 2)
        /\ commitFailure' = (commitFailure \/ commitFails(_commit, 2))
        /\ parent' = fut
        /\ own' = parent_callback_own(fut, fut, dstate[fut], dout[fut], own)
        /\ \/ /\ _parent_update_event' = TRUE       \* add_done_callback logs the error
              /\ obs' = Obs("update_parent", fut, handleStatus, "ok")
           \/ /\ _parent_update_event' = _parent_update_event  \* or lets it propagate
              /\ obs' = Obs("update_parent", fut, handleStatus, "raised")
        /\ UNCHANGED <<prev_parent, delegVars, callerVars>>

\* ------------------------------------------------ set_result, set_exception
\* super().set_result / super().set_exception on the handle's own state: a
\* finished future either rejects the call (InvalidStateError) or is
\* overwritten, depending on the concurrent.futures in use.
superSet(o, op) ==
    \/ /\ own.kind = "none"
        /\ own' = o
        /\ obs' = Obs(op, None, handleStatus, "ok")
    \/ /\ own.kind # "none"
        /\ \/ own' = own /\ obs' = Obs(op, None, handleStatus, "raised")
           \/ own' = o /\ obs' = Obs(op, None, handleStatus, "ok")

setDirect(o, op) ==
    /\ _commit' = commit(_commit, 1)
    /\ commitFailure' = (commitFailure \/ commitFails(_commit, 1))
    /\ \/ /\ parent # None
          /\ obs' = Obs(op, None, handleStatus, "raised")
          /\ own' = own
       \/ /\ parent = None
          /\ superSet(o, op)
    /\ UNCHANGED <<parent, prev_parent, _parent_update_event, delegVars, callerVars>>

set_result(o) == o.kind = "val" /\ setDirect(o, "set_result")

set_exception(o) == o.kind = "exc" /\ setDirect(o, "set_exception")

\* ------------------------------------------------------------------ result
\* The exception object e as re-raised by the except clause: a
\* RemoteException is re-raised as the error it wraps.
\* Variant: the RemoteException is raised as it is, not the error it wraps.
reraised_wrapped(e) == e

reraised(e) == IF e.wrapped THEN Err(e.v) ELSE e

\* The caller enters result(timeout): timeout is None or a number.
result_call(c, timeout) ==
    /\ pc[c] = "idle"
    /\ pc' = [pc EXCEPT ![c] = "l149"]
    /\ tmo' = [tmo EXCEPT ![c] = timeout]
    /\ UNCHANGED <<handleVars, delegVars, exc, ret, via, obs>>

\* line 149: if self.parent
result_l149(c) ==
    /\ pc[c] = "l149"
    /\ pc' = [pc EXCEPT ![c] = IF parent # None THEN "l150" ELSE "l160"]
    /\ via' = [via EXCEPT ![c] = parent]
    /\ UNCHANGED <<handleVars, delegVars, tmo, exc, ret, obs>>

\* line 150: self.commit(2)
result_l150(c) ==
    /\ pc[c] = "l150"
    /\ _commit' = commit(_commit, 2)
    /\ commitFailure' = (commitFailure \/ commitFails(_commit, 2))
    /\ pc' = [pc EXCEPT ![c] = "l153"]
    /\ UNCHANGED <<parent, prev_parent, _parent_update_event, own, delegVars, tmo, exc, ret, via, obs>>

\* Variant: the check of super().done() is left out.
result_l153_nocheck(c) ==
    /\ pc[c] = "l153"
    /\ pc' = [pc EXCEPT ![c] = "l158"]
    /\ UNCHANGED <<handleVars, delegVars, tmo, exc, ret, via, obs>>

\* line 153: if super().done(): raise ValueException(...)
result_l153(c) ==
    /\ pc[c] = "l153"
    /\ IF superDone
       THEN /\ exc' = [exc EXCEPT ![c] = NameError]
            /\ pc' = [pc EXCEPT ![c] = "l170"]
       ELSE /\ exc' = exc
            /\ pc' = [pc EXCEPT ![c] = "l158"]
    /\ UNCHANGED <<handleVars, delegVars, tmo, ret, via, obs>>

\* Variant: every result is re-raised, as if it were a RemoteException.
waited_reraise(c, st, o) ==
    /\ exc' = [exc EXCEPT ![c] =
                  IF st = CANCELLED THEN CancelledError
                  ELSE IF o.kind = "val" THEN Err(o.v)
                  ELSE o]
    /\ pc' = [pc EXCEPT ![c] = "l170"]
    /\ ret' = ret

\* The end of a wait on a future with state st and outcome o: lines 164-166
\* return a value, re-raise a RemoteException result inside the try block, or
\* the wait itself raised.
waited(c, st, o) ==
    IF st = FINISHED /\ o.kind = "val" /\ ~o.wrapped
    THEN /\ ret' = [ret EXCEPT ![c] = Return(o.v)]
         /\ pc' = [pc EXCEPT ![c] = "done"]
         /\ exc' = exc
    ELSE /\ exc' = [exc EXCEPT ![c] =
                       IF st = CANCELLED THEN CancelledError
                       ELSE IF o.kind = "val" THEN Err(o.v)
                       ELSE o]
         /\ pc' = [pc EXCEPT ![c] = "l170"]
         /\ ret' = ret

\* The wait of a result(timeout) call ran out before the future was done.
timedOut(c) ==
    /\ tmo[c]
    /\ exc' = [exc EXCEPT ![c] = TimeoutError]
    /\ pc' = [pc EXCEPT ![c] = "l170"]
    /\ ret' = ret

\* line 158: res = self.parent.result(timeout=timeout)
result_l158(c) ==
    /\ pc[c] = "l158"
    /\ IF delegateDone(parent)
       THEN waited(c, dstate[parent], dout[parent])
       ELSE timedOut(c)
    /\ UNCHANGED <<handleVars, delegVars, tmo, via, obs>>

\* line 160: self.commit(1)
result_l160(c) ==
    /\ pc[c] = "l160"
    /\ _commit' = commit(_commit, 1)
    /\ commitFailure' = (commitFailure \/ commitFails(_commit, 1))
    /\ pc' = [pc EXCEPT ![c] = "l162"]
    /\ UNCHANGED <<parent, prev_parent, _parent_update_event, own, delegVars, tmo, exc, ret, via, obs>>

\* Variant: whatever super() holds as a result is returned, a RemoteException
\* too.
result_l162_raw(c) ==
    /\ pc[c] = "l162"
    /\ IF superDone /\ own.kind = "val"
       THEN /\ ret' = [ret EXCEPT ![c] = Return(own.v)]
            /\ pc' = [pc EXCEPT ![c] = "done"]
            /\ exc' = exc
       ELSE IF superDone THEN waited(c, FINISHED, own)
       ELSE timedOut(c)
    /\ UNCHANGED <<handleVars, delegVars, tmo, via, obs>>

\* line 162: res = super().result(timeout=timeout)
result_l162(c) ==
    /\ pc[c] = "l162"
    /\ IF superDone
       THEN waited(c, FINISHED, own)
       ELSE timedOut(c)
    /\ UNCHANGED <<handleVars, delegVars, tmo, via, obs>>

\* Variant: the except clause waits for a retry whenever there is a parent.
waitsForRetry_any == parent # None

\* line 170: the except clause decides between waiting for a retry and raising.
waitsForRetry == parent # None /\ retries_left[parent] > 0

result_l170(c) ==
    /\ pc[c] = "l170"
    /\ IF waitsForRetry
       THEN /\ pc' = [pc EXCEPT ![c] = "l171"]
            /\ ret' = ret
       ELSE /\ pc' = [pc EXCEPT ![c] = "done"]
            /\ ret' = [ret EXCEPT ![c] = Raise(reraised(exc[c]))]
    /\ UNCHANGED <<handleVars, delegVars, tmo, exc, via, obs>>

\* line 171: self.commit(2)
result_l171(c) ==
    /\ pc[c] = "l171"
    /\ _commit' = commit(_commit, 2)
    /\ commitFailure' = (commitFailure \/ commitFails(_commit, 2))
    /\ pc' = [pc EXCEPT ![c] = "l173"]
    /\ UNCHANGED <<parent, prev_parent, _parent_update_event, own, delegVars, tmo, exc, ret, via, obs>>

\* line 173: self._parent_update_event.wait(), without a timeout
result_l173(c) ==
    /\ pc[c] = "l173"
    /\ _parent_update_event
    /\ pc' = [pc EXCEPT ![c] = "l174"]
    /\ UNCHANGED <<handleVars, delegVars, tmo, exc, ret, via, obs>>

\* lines 174-175: self._parent_update_event.clear(); return self.result(timeout)
result_l174(c) ==
    /\ pc[c] = "l174"
    /\ _parent_update_event' = FALSE
    /\ pc' = [pc EXCEPT ![c] = "l149"]
    /\ exc' = [exc EXCEPT ![c] = NoOutcome]
    /\ UNCHANGED <<parent, prev_parent, _commit, commitFailure, own, delegVars, tmo, ret, via, obs>>

result(c) ==
    \/ result_l149(c) \/ result_l150(c) \/ result_l153(c) \/ result_l158(c)
    \/ result_l160(c) \/ result_l162(c) \/ result_l170(c) \/ result_l171(c)
    \/ result_l173(c) \/ result_l174(c)

\* ------------------------------------------------------- status accessors
Bool(b) == IF b THEN "True" ELSE "False"

\* Variant: without a parent done() answers for super(), as Future.done does.
done_super == IF parent # None THEN Bool(delegateDone(parent)) ELSE Bool(superDone)

\* What the accessors return in the current state.
done == IF parent # None THEN Bool(delegateDone(parent)) ELSE "False"

running == IF parent # None THEN Bool(dstate[parent] = RUNNING) ELSE "False"

cancelled == IF parent # None THEN Bool(dstate[parent] = CANCELLED) ELSE "False"

\* cancel() returns the bound method self.parent.cancel without calling it.
cancel == IF parent # None THEN "method" ELSE "False"

\* The accessors run commit(2) when there is a parent and change nothing else.
accessor(op, r) ==
    /\ obs' = Obs(op, None, handleStatus, r)
    /\ _commit' = IF parent # None THEN commit(_commit, 2) ELSE _commit
    /\ commitFailure' = (commitFailure \/ (parent # None /\ commitFails(_commit, 2)))
    /\ UNCHANGED <<parent, prev_parent, _parent_update_event, own, delegVars, callerVars>>

call_done == accessor("done", done)

call_running == accessor("running", running)

call_cancelled == accessor("cancelled", cancelled)

call_cancel == accessor("cancel", cancel)

\* ------------------------------------------------------- add_done_callback
\* Variant: without a parent the function is dropped and nothing is raised.
add_done_callback_silent(f) ==
    /\ fnOn[f] = FnUnused
    /\ IF parent = None
       THEN /\ fnOn' = [fnOn EXCEPT ![f] = FnRaised]
            /\ obs' = Obs("add_done_callback", None, handleStatus, "ok")
            /\ UNCHANGED <<_commit, commitFailure, dcallbacks, fnFired>>
       ELSE /\ fnOn' = [fnOn EXCEPT ![f] = FnOn(parent)]
            /\ obs' = Obs("add_done_callback", None, handleStatus, "ok")
            /\ _commit' = commit(_commit, 2)
            /\ commitFailure' = (commitFailure \/ commitFails(_commit, 2))
            /\ IF delegateDone(parent)
               THEN /\ fnFired' = [fnFired EXCEPT ![f] = @ + 1]
                    /\ dcallbacks' = dcallbacks
               ELSE /\ dcallbacks' = [dcallbacks EXCEPT ![parent] = @ \cup {FnCb(f)}]
                    /\ fnFired' = fnFired
    /\ UNCHANGED <<parent, prev_parent, _parent_update_event, own, dstate, dout,
                   retries_left, callerVars>>

\* Each user function is handed to add_done_callback once.  With a parent the
\* function goes to the parent's add_done_callback, which calls it at once
\* when the parent is done already.
add_done_callback(f) ==
    /\ fnOn[f] = FnUnused
    /\ IF parent = None
       THEN /\ fnOn' = [fnOn EXCEPT ![f] = FnRaised]
            /\ obs' = Obs("add_done_callback", None, handleStatus, "raised")
            /\ UNCHANGED <<_commit, commitFailure, dcallbacks, fnFired>>
       ELSE /\ fnOn' = [fnOn EXCEPT ![f] = FnOn(parent)]
            /\ obs' = Obs("add_done_callback", None, handleStatus, "ok")
            /\ _commit' = commit(_commit, 2)
            /\ commitFailure' = (commitFailure \/ commitFails(_commit, 2))
            /\ IF delegateDone(parent)
               THEN /\ fnFired' = [fnFired EXCEPT ![f] = @ + 1]
                    /\ dcallbacks' = dcallbacks
               ELSE /\ dcallbacks' = [dcallbacks EXCEPT ![parent] = @ \cup {FnCb(f)}]
                    /\ fnFired' = fnFired
    /\ UNCHANGED <<parent, prev_parent, _parent_update_event, own, dstate, dout,
                   retries_left, callerVars>>

\* ------------------------------------------------------------------- Next
\* Executor futures and callers are interchangeable: the engine takes the
\* futures in the order of their numbers and the callers start in the order
\* of theirs.
Used(d) == dstate[d] # PENDING \/ parent = d
Fresh(d) == IF d = 1 THEN TRUE ELSE Used(d - 1)
Started(c) == IF c = 1 THEN TRUE ELSE pc[c - 1] # "idle"

\* The engine binds a parent and the executor completes the attempts.
Engine ==
    \/ \E d \in Delegates : \E o \in OutcomesOf(d) : Fresh(d) /\ DelegateFinish(d, o)
    \/ \E d \in Delegates : Fresh(d) /\ update_parent(d)

\* Attempts are cancelled by their owner before they start.
Cancels == \E d \in Delegates : Fresh(d) /\ DelegateCancel(d)

\* The executor starts attempts.
Starts == \E d \in Delegates : Fresh(d) /\ DelegateRun(d)

\* The handle is resolved directly.
Direct ==
    \/ \E o \in OutcomesOf(None) : set_result(o)
    \/ \E o \in OutcomesOf(None) : set_exception(o)

\* The threads in Cs call result(), with a timeout when Ts allows it.
Waiters(Cs, Ts) ==
    \/ \E c \in Cs, t \in Ts : Started(c) /\ result_call(c, t)
    \/ \E c \in Cs : result(c)

\* A thread reads the status of the handle and registers callbacks.
Accessors ==
    \/ call_done
    \/ call_running
    \/ call_cancelled
    \/ call_cancel
    \/ \E f \in Fns : add_done_callback(f)

\* One thread in result() against everything the engine can do to the handle.
Next == Engine \/ Cancels \/ Direct \/ Waiters({1}, BOOLEAN)

Spec == Init /\ [][Next]_vars

\* All threads in result() while the engine binds and attempts complete: the
\* first thread with or without a timeout, the others without.
NextRetry == Engine \/ Waiters({1}, BOOLEAN) \/ Waiters(Callers \ {1}, {FALSE})

SpecRetry == Init /\ [][NextRetry]_vars

\* Threads make progress: a caller that can take a step of result() takes it.
FairSpecRetry == SpecRetry /\ \A c \in Callers : WF_vars(result(c))

\* The status accessors and callbacks against everything the engine can do.
NextAccess == Engine \/ Cancels \/ Starts \/ Direct \/ Accessors

SpecAccess == Init /\ [][NextAccess]_vars

\* ================================================================ claims
\* The caller is inside result(), on the branch that forwards to the parent.
OnParentPath(c) == pc[c] \in {"l150", "l153", "l158", "l170", "l171", "l173", "l174"}

\* The caller is inside result(), on the branch that waits on super().
OnDirectPath(c) == pc[c] \in {"l160", "l162"}

\* The engine's last call was update_parent(d), made when the parent had
\* failed with retries left: a rebind to d.
Rebound(d) == obs.op = "update_parent" /\ obs.arg = d /\ obs.pre = "retry"

\* Executor future d has succeeded with its value.
Succeeded(d) == dstate[d] = FINISHED /\ dout[d] = Ok(Val(d))

Returned(c, d) == pc[c] = "done" /\ ret[c] = Return(Val(d))

\* C1: when the parent has failed with retries left, the engine rebinds the
\* handle to a new executor future and that future succeeds with V, a result()
\* call in progress on the handle eventually returns V.
C1_RebindReturns ==
    \A c \in Callers : \A d \in Delegates :
        (OnParentPath(c) /\ Rebound(d) /\ Succeeded(d)) ~> Returned(c, d)

\* C2: with all callers inside result() on the handle, after the parent has
\* failed with retries left, the engine has rebound the handle and the new
\* future has succeeded with V, every caller eventually returns V: none stays
\* blocked on the rebind signal.
C2_BothReturn ==
    \A d \in Delegates :
        ((\A c \in Callers : OnParentPath(c)) /\ Rebound(d) /\ Succeeded(d))
            ~> (\A c \in Callers : Returned(c, d))

\* C4: a result() call without timeout that started while the handle had no
\* parent eventually returns V once a parent has been bound and has succeeded
\* with V.
C4_UnboundCallReturns ==
    \A c \in Callers : \A d \in Delegates :
        (OnDirectPath(c) /\ ~tmo[c] /\ parent = d /\ Succeeded(d)) ~> Returned(c, d)

\* The handle's own result was set directly to V and a parent was bound
\* afterwards (super() can only be set while there is no parent).
Mixed == own = Ok(Val(None)) /\ parent # None

\* C3 as claimed: after set_result(V) on the unbound handle and a later
\* update_parent, the commit failure is recorded and every later result()
\* call returns V.
C3_MixedReturnsDirect ==
    Mixed => /\ commitFailure
             /\ \A c \in Callers :
                    (via[c] # None /\ pc[c] = "done") => ret[c] = Return(Val(None))

\* C3 as amended: after set_result(V) on the unbound handle and a later
\* update_parent, the commit failure is recorded, and a later result() call
\* never returns V and never waits on the parent: it fails the check of
\* super().done(), and raises that error when the parent has no retries left.
C3_MixedRaises ==
    Mixed => /\ commitFailure
             /\ \A c \in Callers :
                    via[c] # None =>
                        /\ ret[c].kind # "return"
                        /\ pc[c] # "l158"
                        /\ pc[c] = "done" =>
                               (ret[c] = Raise(NameError) /\ retries_left[parent] = 0)

C3_Witness ==
    /\ Mixed
    /\ commitFailure
    /\ \E c \in Callers : via[c] # None /\ pc[c] = "done" /\ ret[c] = Raise(NameError)

\* C5: a result(timeout) call whose wait timed out ends by raising
\* TimeoutError, whatever the parent's retries_left: it is never left in the
\* wait on the rebind signal.
C5_TimeoutRaises ==
    \A c \in Callers :
        (exc[c] = TimeoutError /\ pc[c] # "l170") =>
            (pc[c] = "done" /\ ret[c] = Raise(TimeoutError))

\* Executor future d has finished with the task error e, raised or returned,
\* plain or wrapped in a RemoteException.
FailedWith(d, e) == dstate[d] = FINISHED /\ dout[d] \in {Err(e), ErrWrapped(e), OkWrapped(e)}

OnRebindWait(c) == pc[c] \in {"l171", "l173", "l174"}

\* What C6 says of a caller that read the parent, the parent having failed
\* with e: it is not in the wait for a rebind and, unless its own wait timed
\* out before the failure, it raises e unwrapped.
RaisesFinal(c, e) ==
    /\ ~OnRebindWait(c)
    /\ (pc[c] = "done" /\ ret[c] # Raise(TimeoutError)) => ret[c] = Raise(Err(e))

\* C6 as claimed: when the parent has failed with E and has no retries left,
\* result() raises E (unwrapped) and does not wait on the rebind signal.
C6_FinalFailureRaises ==
    \A c \in Callers : \A e \in Errs :
        (parent # None /\ FailedWith(parent, e) /\ retries_left[parent] = 0 /\ via[c] # None)
            => RaisesFinal(c, e)

\* C6 as amended: the same on a handle whose own result was not set directly
\* before the parent was bound.
C6_FinalFailureRaisesUnmixed ==
    \A c \in Callers : \A e \in Errs :
        (parent # None /\ FailedWith(parent, e) /\ retries_left[parent] = 0 /\ via[c] # None
            /\ ~superDone)
            => RaisesFinal(c, e)

C6_Witness ==
    \E c \in Callers : \E e \in Errs :
        /\ parent # None /\ dstate[parent] = FINISHED /\ dout[parent] = ErrWrapped(e)
        /\ retries_left[parent] = 0 /\ ~superDone
        /\ via[c] = parent /\ pc[c] = "done" /\ ret[c] = Raise(Err(e))

\* C7: on a handle not resolved directly, once the bound parent has succeeded
\* with V, done() is true and a result() call that read the parent returns V:
\* it gets no error other than the timeout of a wait that ran out before the
\* parent finished.
C7_BoundSuccess ==
    \A d \in Delegates :
        (parent = d /\ Succeeded(d) /\ ~superDone) =>
            /\ done = "True"
            /\ \A c \in Callers :
                   via[c] = d =>
                      /\ (pc[c] = "done" /\ ret[c] # Raise(TimeoutError))
                             => ret[c] = Return(Val(d))
                      /\ pc[c] \in {"l170", "l171", "l173", "l174"}
                             => exc[c] = TimeoutError

C7_Witness ==
    \E d \in Delegates : \E c \in Callers :
        /\ parent = d /\ Succeeded(d) /\ ~superDone
        /\ ParentCb \in dcallbacks[d]
        /\ done = "True"
        /\ via[c] = d /\ Returned(c, d)

\* C8: while the handle has no parent, done(), running() and cancelled()
\* return False, also after set_result or set_exception on the handle.
C8_UnboundStatusFalse ==
    /\ parent = None => (done = "False" /\ running = "False" /\ cancelled = "False")
    /\ (obs.op \in {"done", "running", "cancelled"} /\ obs.pre \in Unbound)
           => obs.ret = "False"

C8_Witness == obs.op = "done" /\ obs.pre = "direct" /\ obs.ret = "False" /\ parent = None

\* C9: cancel() with a parent returns the boolean the parent's cancel()
\* reports, and a parent that was cancelled that way is cancelled; cancel()
\* without a parent returns False.
C9_CancelForwards ==
    obs.op = "cancel" =>
        IF obs.pre \in Unbound THEN obs.ret = "False"
        ELSE /\ obs.ret \in {"True", "False"}
             /\ obs.ret = "True" => dstate[parent] = CANCELLED

\* C10: add_done_callback(fn) without a parent raises and registers nothing,
\* so fn is never called, also when a parent is bound and finishes later; with
\* a parent, fn is put on that parent and has been called exactly when that
\* parent is done.
C10_Callbacks ==
    /\ obs.op = "add_done_callback" => (obs.ret = "raised" <=> obs.pre \in Unbound)
    /\ \A f \in Fns :
          /\ fnOn[f] = FnRaised =>
                (fnFired[f] = 0 /\ \A d \in Delegates : FnCb(f) \notin dcallbacks[d])
          /\ fnOn[f].st = "on" =>
                IF delegateDone(fnOn[f].d)
                THEN fnFired[f] = 1
                ELSE fnFired[f] = 0 /\ FnCb(f) \in dcallbacks[fnOn[f].d]

C10_Witness ==
    \E f \in Fns :
        /\ fnOn[f] = FnRaised
        /\ parent # None /\ dstate[parent] = FINISHED /\ ParentCb \in dcallbacks[parent]
        /\ fnFired[f] = 0

\* The exception e is a task failure, not an error raised by the handle, a
\* timeout or a cancellation.
TaskFailure(e) == e.kind \in {"exc", "raise"} /\ e.v \in Errs

\* C11: a result() caller that waited on a parent decides at line 170 on that
\* same parent; it raises a task failure only when that parent has
\* retries_left = 0 and has failed with it, and it goes to wait for a retry
\* only when that parent has retries left.
C11_RaisesOnlyFinal ==
    \A c \in Callers :
        via[c] # None =>
            /\ parent = via[c]
            /\ (pc[c] = "done" /\ TaskFailure(ret[c])) =>
                   /\ retries_left[via[c]] = 0
                   /\ FailedWith(via[c], ret[c].v)
                   /\ ~ret[c].wrapped
            /\ OnRebindWait(c) => retries_left[via[c]] > 0

\* A caller has raised the failure of its parent, which has no retries left,
\* and the engine has offered another future since.
C11_Witness ==
    \E c \in Callers :
        /\ via[c] = parent /\ pc[c] = "done" /\ TaskFailure(ret[c])
        /\ retries_left[parent] = 0
        /\ obs.op = "update_parent" /\ obs.arg # parent /\ obs.pre = "final"

\* C12: update_parent(d) called with a new future d when the parent has
\* failed with retries left replaces the parent: the call does not raise, the
\* parent is d, prev_parent is the parent that failed, and parent_callback is
\* attached to d.
C12_RebindSucceeds ==
    \A d \in Delegates :
        (Rebound(d) /\ dstate[d] = PENDING) =>
            /\ obs.ret = "ok"
            /\ parent = d
            /\ prev_parent \in Delegates \ {d}
            /\ ParentCb \in dcallbacks[d]

\* C13: once the bound parent has finished and its callbacks have run, on a
\* handle whose paths were never mixed, super() holds the outcome of the
\* parent: its result, or the exception it raised.
C13_OwnMirrorsParent ==
    (/\ parent # None
     /\ ParentCb \in dcallbacks[parent]
     /\ dstate[parent] = FINISHED
     /\ ~commitFailure)
        => own = dout[parent]

\* C14: a caller that saw the parent it read fail and has passed the wait on
\* _parent_update_event finds another parent than that one.
C14_ResumesOnNewParent ==
    \A c \in Callers :
        (pc[c] = "l174" /\ via[c] # None /\ TaskFailure(exc[c])) => parent # via[c]

\* A step that is a call of set_result or set_exception on a handle with a
\* parent.
SetWhileBound ==
    /\ parent # None
    /\ obs' # obs
    /\ obs'.op \in {"set_result", "set_exception"}

\* C15: set_result or set_exception on a handle with a parent raises and
\* changes nothing: super(), the parent and _commit are as before.
C15_SetWhileBoundNoEffect ==
    [][SetWhileBound =>
          /\ obs'.ret = "raised"
          /\ own' = own
          /\ parent' = parent
          /\ _commit' = _commit]_vars

\* C16: _commit starts at 0 and, once it is 1 or 2, no step changes it.
C16_CommitWriteOnce ==
    /\ _commit = 0
    /\ [][_commit # 0 => _commit' = _commit]_vars

\* Both paths have been tried on the handle, and the first one is kept.
C16_Witness == commitFailure /\ _commit = 1 /\ parent # None /\ (\E c \in Callers : via[c] # None)

\* A step that is a call of update_parent on a handle whose parent is done
\* and has no retries left.
BindOnFinal ==
    /\ parent # None /\ delegateDone(parent) /\ retries_left[parent] = 0
    /\ obs' # obs
    /\ obs'.op = "update_parent"

\* C17: update_parent on a handle whose parent is done with retries_left = 0
\* raises and changes nothing: parent, prev_parent, the event and the
\* callbacks of the offered future are as before.
C17_BindOnFinalRejected ==
    [][BindOnFinal =>
          /\ obs'.ret = "raised"
          /\ parent' = parent
          /\ prev_parent' = prev_parent
          /\ _parent_update_event' = _parent_update_event
          /\ dcallbacks' = dcallbacks]_vars

\* Another future was offered after the parent had failed for good, and was
\* refused.
C17_Witness ==
    /\ parent # None /\ dstate[parent] = FINISHED /\ retries_left[parent] = 0
    /\ obs = Obs("update_parent", obs.arg, "final", "raised")
    /\ obs.arg \in Delegates \ {parent}
    /\ dcallbacks[obs.arg] = {}
    /\ prev_parent = None

\* Caller c leaves line 162 or line 170 on a handle without a parent.
LeavesDirect(c, l) == parent = None /\ pc[c] = l /\ pc'[c] # l

\* C18: on a handle without a parent, a result() call that finds super() set
\* to the value V returns V, one that finds it set to an exception, or to a
\* RemoteException, raises the error (the wrapped error of a
\* RemoteException); no caller waits on _parent_update_event.
C18_DirectResult ==
    /\ [](parent = None =>
            \A c \in Callers :
                /\ ~OnRebindWait(c)
                /\ (pc[c] = "done" /\ ret[c].kind = "return") => ret[c] = Return(Val(None))
                /\ (pc[c] = "done" /\ ret[c].kind = "raise") => ~ret[c].wrapped)
    /\ [][\A c \in Callers :
            /\ (LeavesDirect(c, "l162") /\ own = Ok(Val(None)))
                   => (pc'[c] = "done" /\ ret'[c] = Return(Val(None)))
            /\ (LeavesDirect(c, "l162") /\ superDone /\ own # Ok(Val(None)))
                   => (pc'[c] = "l170" /\ exc'[c].kind = "exc" /\ exc'[c].v = own.v)
            /\ LeavesDirect(c, "l170")
                   => (pc'[c] = "done" /\ ret'[c] = Raise(Err(exc[c].v)))]_vars

\* set_exception was given a RemoteException and a result() call on the
\* handle, which never had a parent, raised the error it wraps.
C18_Witness ==
    \E c \in Callers : \E e \in Errs :
        /\ parent = None /\ own = ErrWrapped(e) /\ obs.op = "set_exception"
        /\ via[c] = None /\ pc[c] = "done" /\ ret[c] = Raise(Err(e))

\* Caller c is blocked in _parent_update_event.wait().
Blocked(c) == pc[c] = "l173" /\ ~_parent_update_event

C20_CallbackStaysOnParent ==
    \A f \in Fns :
        fnOn[f].st = "on" =>
            /\ fnFired[f] = (IF delegateDone(fnOn[f].d) THEN 1 ELSE 0)
            /\ \A d \in Delegates \ {fnOn[f].d} : FnCb(f) \notin dcallbacks[d]

\* The function was put on a pending parent, which then failed with retries
\* left; the engine offered another future, which has finished since: the
\* function was called once.
C20_Witness ==
    \E f \in Fns : \E d \in Delegates :
        /\ fnOn[f] = FnOn(d) /\ FnCb(f) \in dcallbacks[d]
        /\ FailedWith(d, "E") /\ retries_left[d] > 0
        /\ Rebound(obs.arg) /\ obs.arg # d /\ dstate[obs.arg] = FINISHED
        /\ fnFired[f] = 1

====
